---- MODULE Spec2Model ----
(***************************************************************************)
(* GraphingLib, graphinglib/multifigure.py: the MultiFigure canvas, its    *)
(* SubFigures, the resolution of "default" element attributes against the  *)
(* figure style and the assembling of the legends.                         *)
(*                                                                         *)
(* The plotting backend is modelled by what is asked of it: the axes       *)
(* created, the grids and legends drawn and the elements plotted by one    *)
(* call are recorded in the variable backend.  Attribute values are        *)
(* strings, as the sentinel "default" is.                                  *)
(*                                                                         *)
(* Further down: the reflected operators of graphinglib/tools.py, Heatmap  *)
(* and VectorField of graphinglib/data_plotting_2d.py, and the SmartFigure *)
(* methods that unit_testing/smart_figure_test.py exercises.               *)
(***************************************************************************)
EXTENDS Integers, Sequences, FiniteSets, TLC

VARIABLES
    elements,     \* the Plottables that exist: id -> [type, label, _label, vars],
                  \* or the Heatmap, VectorField or wrapped number under study
    multifigure,  \* the MultiFigure: num_rows, num_cols, size, figure_style, _SubFigures
    subfigures,   \* the SubFigures that exist, in creation order
    smartfigures, \* the SmartFigures and SmartTwinAxes that exist
    backend       \* the last call: its arguments, what it raised, what it drew

vars == <<elements, multifigure, subfigures, smartfigures, backend>>

(***************************************************************************)
(* Bounds of the model.                                                    *)
(***************************************************************************)
\* SubFigures created (by add_SubFigure or by the constructor)
MaxSubFigures == 2
\* length a SubFigure's _handles list may reach (it bounds the preparations)
MaxHandles == 3

\* Python's None, and an attribute the object does not have (AttributeError)
None == "None"
NoAttribute == "<no attribute>"

(***************************************************************************)
(* Plottable elements.  vars(element) is an insertion-ordered dict; the    *)
(* attributes are those of a curve with error bars.                        *)
(***************************************************************************)
ElementVars ==
    <<"color", "line_width", "errorbars_color", "errorbars_line_width",
      "cap_thickness">>

VarNames == {ElementVars[i] : i \in 1..Len(ElementVars)}

\* a value given by the user when the element was built
UserValue ==
    [color |-> "red", line_width |-> "3", errorbars_color |-> "green",
     errorbars_line_width |-> "5", cap_thickness |-> "7"]

\* the keys a style has for an element type
StyleKeys == VarNames \cup {"face_color"}

(***************************************************************************)
(* Figure styles, as FileLoader(figure_style).load() returns them: a dict  *)
(* of dicts, type name -> attribute -> value.                              *)
(***************************************************************************)
FigureStyles == {"plain", "horrible"}

FileLoaderLoad(figure_style) ==
    IF figure_style = "plain"
    THEN [Figure |-> [show_grid |-> "False"],
          Curve  |-> [color |-> "k", line_width |-> "2", face_color |-> "b",
                      errorbars_color |-> "same as curve",
                      errorbars_line_width |-> "same as curve",
                      cap_thickness |-> "same as curve"]]
    ELSE [Figure |-> [show_grid |-> "True"],
          Curve  |-> [color |-> "pink", line_width |-> "10", face_color |-> "y",
                      errorbars_color |-> "same as curve",
                      errorbars_line_width |-> "same as curve",
                      cap_thickness |-> "same as curve"]]

(***************************************************************************)
(* SubFigure._fill_in_missing_params: one turn of the loop over            *)
(* vars(element).items(), then the loop.  The dict is read as the loop     *)
(* goes, so a value written by an earlier turn is the one a later turn     *)
(* sees.                                                                   *)
(***************************************************************************)
\* FillOne without its last branch: an ordinary style entry is not copied
FillOneNoPlainBranch(default_params, object_type, property, evars) ==
    IF evars[property] = "default"
    THEN IF default_params[object_type][property] = "same as curve"
         THEN [evars EXCEPT
                 !["errorbars_color"] = default_params[object_type]["color"],
                 !["errorbars_line_width"] = default_params[object_type]["line_width"],
                 !["cap_thickness"] = default_params[object_type]["line_width"]]
         ELSE IF default_params[object_type][property] = "same as scatter"
         THEN [evars EXCEPT
                 !["errorbars_color"] = default_params[object_type]["face_color"]]
         ELSE evars
    ELSE evars

FillOne(default_params, object_type, property, evars) ==
    IF evars[property] = "default"
    THEN IF default_params[object_type][property] = "same as curve"
         THEN [evars EXCEPT
                 !["errorbars_color"] = default_params[object_type]["color"],
                 !["errorbars_line_width"] = default_params[object_type]["line_width"],
                 !["cap_thickness"] = default_params[object_type]["line_width"]]
         ELSE IF default_params[object_type][property] = "same as scatter"
         THEN [evars EXCEPT
                 !["errorbars_color"] = default_params[object_type]["face_color"]]
         ELSE [evars EXCEPT ![property] = default_params[object_type][property]]
    ELSE evars

RECURSIVE FillFrom(_, _, _, _)
FillFrom(default_params, object_type, i, evars) ==
    IF i > Len(ElementVars)
    THEN evars
    ELSE FillFrom(default_params, object_type, i + 1,
                  FillOne(default_params, object_type, ElementVars[i], evars))

\* the element after self._fill_in_missing_params(element)
SubFigure_fill_in_missing_params(default_params, element) ==
    [element EXCEPT !.vars = FillFrom(default_params, element.type, 1, element.vars)]

(***************************************************************************)
(* SubFigure.__init__.  The parameters that play no part below (labels,    *)
(* limits, log scales, ticks, boxed legend) are left out.  show_grid is    *)
(* the value lines 108-112 compute into the local variable of that name;   *)
(* the constructor stores it in no attribute and nothing below reads it:   *)
(* the field only remembers what the caller asked for.                     *)
(***************************************************************************)
SubFigureInit(placement, figure_style, show_grid) ==
    LET default_params == FileLoaderLoad(figure_style)
    IN  [placement      |-> placement,
         default_params |-> default_params,
         show_grid      |-> IF show_grid # "default"
                            THEN show_grid
                            ELSE default_params["Figure"]["show_grid"],
         grid_is_set    |-> FALSE,
         _elements      |-> <<>>,
         _labels        |-> <<>>,
         _handles       |-> <<>>]

\* SubFigure.add_element, for one element
SubFigure_add_element(sub, e, element) ==
    [sub EXCEPT
       !._elements = Append(@, e),
       !._labels = IF element.label # NoAttribute /\ element.label # None
                   THEN Append(@, element.label)
                   ELSE @]

\* SubFigure.set_grid
SubFigure_set_grid(sub) == [sub EXCEPT !.grid_is_set = TRUE]

(***************************************************************************)
(* SubFigure._prepare_SubFigure.  st is [elements, sub, plotted, z_order]; *)
(* PlotFrom is the loop of lines 174-182 from the k-th element on.  An     *)
(* element has _handle exactly when it has _label.  The handle of an       *)
(* element is written as the element's id.                                 *)
(***************************************************************************)
PlotOne(st, e) ==
    LET filled == SubFigure_fill_in_missing_params(st.sub.default_params, st.elements[e])
        drawn  == Append(st.plotted, [element |-> e, vars |-> filled.vars,
                                      z_order |-> st.z_order])
        heap   == [st.elements EXCEPT ![e] = filled]
    IN  IF filled._label = NoAttribute
        THEN [st EXCEPT !.elements = heap, !.plotted = drawn]
        ELSE [st EXCEPT !.elements = heap, !.plotted = drawn,
                        !.sub._handles = IF filled._label # None
                                         THEN Append(@, e) ELSE @,
                        !.z_order = @ + 2]

RECURSIVE PlotFrom(_, _)
PlotFrom(st, k) ==
    IF k > Len(st.sub._elements)
    THEN st
    ELSE PlotFrom(PlotOne(st, st.sub._elements[k]), k + 1)

\* AxesLegend that does not look at legend: the SubFigure always draws its legend
AxesLegendAlways(sub, legend) ==
    <<[handles |-> sub._handles, labels |-> sub._labels]>>

\* the legend of lines 183-208: the second call is made when the first raises
AxesLegend(sub, legend) ==
    IF legend THEN <<[handles |-> sub._handles, labels |-> sub._labels]>> ELSE <<>>

\* _prepare_SubFigure without the else branch of line 209: nothing is raised
SubFigure_prepare_NoRaise(heap, sub, legend_arg) ==
    LET legend == IF sub._labels = <<>> THEN FALSE ELSE legend_arg
        st == PlotFrom([elements |-> heap, sub |-> sub, plotted |-> <<>>,
                        z_order |-> 0], 1)
    IN  [elements |-> st.elements,
         sub      |-> st.sub,
         axes     |-> [placement |-> sub.placement,
                       grid      |-> sub.grid_is_set,
                       plotted   |-> st.plotted,
                       legends   |-> AxesLegend(st.sub, legend)],
         raised   |-> "none"]

\* [elements, sub, axes, raised] after sub._prepare_SubFigure(grid, legend)
SubFigure_prepare_SubFigure(heap, sub, legend_arg) ==
    LET legend == IF sub._labels = <<>> THEN FALSE ELSE legend_arg
        st == PlotFrom([elements |-> heap, sub |-> sub, plotted |-> <<>>,
                        z_order |-> 0], 1)
    IN  IF sub._elements # <<>>
        THEN [elements |-> st.elements,
              sub      |-> st.sub,
              axes     |-> [placement |-> sub.placement,
                            grid      |-> sub.grid_is_set,
                            plotted   |-> st.plotted,
                            legends   |-> AxesLegend(st.sub, legend)],
              raised   |-> "none"]
        ELSE [elements |-> heap,
              sub      |-> sub,
              axes     |-> [placement |-> sub.placement,
                            grid      |-> sub.grid_is_set,
                            plotted   |-> <<>>,
                            legends   |-> <<>>],
              raised   |-> "GraphingException"]

(***************************************************************************)
(* MultiFigure.__init__ and MultiFigure._prepare_MultiFigure.  acc is      *)
(* [elements, subfigures, axes, labels, handles, raised]; PrepareFrom is   *)
(* the loop of lines 432-437 from the k-th SubFigure on: an exception      *)
(* leaves the loop with what the earlier turns did.                        *)
(***************************************************************************)
MultiFigureInit(num_rows, num_cols, size, figure_style) ==
    [num_rows       |-> num_rows,
     num_cols       |-> num_cols,
     size           |-> size,
     figure_style   |-> figure_style,
     default_params |-> FileLoaderLoad(figure_style),
     _SubFigures    |-> <<>>]

RECURSIVE PrepareFrom(_, _, _, _)
PrepareFrom(acc, list, k, SubFigures_legend) ==
    IF k > Len(list) \/ acc.raised # "none"
    THEN acc
    ELSE LET r == SubFigure_prepare_SubFigure(acc.elements, acc.subfigures[list[k]],
                                              SubFigures_legend)
         IN  PrepareFrom(
                 [elements   |-> r.elements,
                  subfigures |-> [acc.subfigures EXCEPT ![list[k]] = r.sub],
                  axes       |-> Append(acc.axes, r.axes),
                  labels     |-> acc.labels \o r.sub._labels,
                  handles    |-> acc.handles \o r.sub._handles,
                  raised     |-> r.raised],
                 list, k + 1, SubFigures_legend)

\* [elements, subfigures, axes, figure_legends, raised] after _prepare_MultiFigure;
\* the figure legend of lines 438-463 is one legend: the second call is made
\* when the first raises
MultiFigure_prepare_MultiFigure(heap, subs, mf, legend) ==
    LET SubFigures_legend == IF ~legend THEN TRUE ELSE FALSE
        acc == PrepareFrom([elements |-> heap, subfigures |-> subs, axes |-> <<>>,
                            labels |-> <<>>, handles |-> <<>>, raised |-> "none"],
                           mf._SubFigures, 1, SubFigures_legend)
    IN  [elements       |-> acc.elements,
         subfigures     |-> acc.subfigures,
         axes           |-> acc.axes,
         figure_legends |-> IF legend /\ acc.raised = "none"
                            THEN <<[handles |-> acc.handles, labels |-> acc.labels]>>
                            ELSE <<>>,
         raised         |-> acc.raised]

(***************************************************************************)
(* MultiFigure._fill_in_missing_params, lines 498-522: one turn of the     *)
(* loop over vars(element).items(), then the loop, read against the        *)
(* MultiFigure's own default_params.                                       *)
(***************************************************************************)
\* MultiFigure_FillOne without the branch of line 515: "same as scatter" is
\* copied as an ordinary entry
MultiFigure_FillOneNoScatterBranch(default_params, object_type, property, evars) ==
    IF evars[property] = "default"
    THEN IF default_params[object_type][property] = "same as curve"
         THEN [evars EXCEPT
                 !["errorbars_color"] = default_params[object_type]["color"],
                 !["errorbars_line_width"] = default_params[object_type]["line_width"],
                 !["cap_thickness"] = default_params[object_type]["line_width"]]
         ELSE [evars EXCEPT ![property] = default_params[object_type][property]]
    ELSE evars

MultiFigure_FillOne(default_params, object_type, property, evars) ==
    IF evars[property] = "default"
    THEN IF default_params[object_type][property] = "same as curve"
         THEN [evars EXCEPT
                 !["errorbars_color"] = default_params[object_type]["color"],
                 !["errorbars_line_width"] = default_params[object_type]["line_width"],
                 !["cap_thickness"] = default_params[object_type]["line_width"]]
         ELSE IF default_params[object_type][property] = "same as scatter"
         THEN [evars EXCEPT
                 !["errorbars_color"] = default_params[object_type]["face_color"]]
         ELSE [evars EXCEPT ![property] = default_params[object_type][property]]
    ELSE evars

RECURSIVE MultiFigure_FillFrom(_, _, _, _)
MultiFigure_FillFrom(default_params, object_type, i, evars) ==
    IF i > Len(ElementVars)
    THEN evars
    ELSE MultiFigure_FillFrom(default_params, object_type, i + 1,
             MultiFigure_FillOne(default_params, object_type, ElementVars[i], evars))

\* the element after multifigure._fill_in_missing_params(element)
MultiFigure_fill_in_missing_params(default_params, element) ==
    [element EXCEPT
       !.vars = MultiFigure_FillFrom(default_params, element.type, 1, element.vars)]

\* the defaults of the legend parameter of display and of save_figure
display_legend_default == FALSE
save_figure_legend_default == TRUE

(***************************************************************************)
(* The calls.  Each action is one call of the interface; backend records   *)
(* the call, the elements as they were before it, what the call asked of   *)
(* the plotting backend and what it raised.                                *)
(***************************************************************************)
\* add_SubFigure without the check of line 406
add_SubFigureNoNegativeCheck(placement, show_grid) ==
    IF placement[1] >= multifigure.size[1] \/ placement[2] >= multifigure.size[2]
    THEN /\ backend' = [op |-> "add_SubFigure", placement |-> placement,
                        show_grid |-> show_grid, raised |-> "GraphingException",
                        message |-> "must be inside the size"]
         /\ UNCHANGED <<elements, multifigure, subfigures, smartfigures>>
    ELSE /\ Len(subfigures) < MaxSubFigures
         /\ subfigures' = Append(subfigures,
                SubFigureInit(placement, multifigure.figure_style, show_grid))
         /\ multifigure' = [multifigure EXCEPT
                              !._SubFigures = Append(@, Len(subfigures) + 1)]
         /\ backend' = [op |-> "add_SubFigure", placement |-> placement,
                        show_grid |-> show_grid, raised |-> "none",
                        message |-> ""]
         /\ UNCHANGED <<elements, smartfigures>>

\* MultiFigure.add_SubFigure(placement, show_grid=show_grid)
add_SubFigure(placement, show_grid) ==
    IF placement[1] >= multifigure.size[1] \/ placement[2] >= multifigure.size[2]
    THEN /\ backend' = [op |-> "add_SubFigure", placement |-> placement,
                        show_grid |-> show_grid, raised |-> "GraphingException",
                        message |-> "must be inside the size"]
         /\ UNCHANGED <<elements, multifigure, subfigures, smartfigures>>
    ELSE IF placement[1] < 0 \/ placement[2] < 0
    THEN /\ backend' = [op |-> "add_SubFigure", placement |-> placement,
                        show_grid |-> show_grid, raised |-> "GraphingException",
                        message |-> "cannot be negative"]
         /\ UNCHANGED <<elements, multifigure, subfigures, smartfigures>>
    ELSE /\ Len(subfigures) < MaxSubFigures
         /\ subfigures' = Append(subfigures,
                SubFigureInit(placement, multifigure.figure_style, show_grid))
         /\ multifigure' = [multifigure EXCEPT
                              !._SubFigures = Append(@, Len(subfigures) + 1)]
         /\ backend' = [op |-> "add_SubFigure", placement |-> placement,
                        show_grid |-> show_grid, raised |-> "none",
                        message |-> ""]
         /\ UNCHANGED <<elements, smartfigures>>

\* SubFigure(placement, figure_style=figure_style, show_grid=show_grid)
new_SubFigure(placement, figure_style, show_grid) ==
    /\ Len(subfigures) < MaxSubFigures
    /\ subfigures' = Append(subfigures, SubFigureInit(placement, figure_style, show_grid))
    /\ backend' = [op |-> "SubFigure", placement |-> placement,
                   show_grid |-> show_grid, raised |-> "none"]
    /\ UNCHANGED <<elements, multifigure, smartfigures>>

\* subfigures[s].add_element(elements[e]), for an element that is not in it yet
add_element(s, e) ==
    /\ \A k \in 1..Len(subfigures[s]._elements) : subfigures[s]._elements[k] # e
    /\ subfigures' = [subfigures EXCEPT ![s] = SubFigure_add_element(@, e, elements[e])]
    /\ backend' = [op |-> "add_element", sub |-> s, element |-> e, raised |-> "none"]
    /\ UNCHANGED <<elements, multifigure, smartfigures>>

\* subfigures[s].set_grid()
set_grid(s) ==
    /\ subfigures' = [subfigures EXCEPT ![s] = SubFigure_set_grid(@)]
    /\ backend' = [op |-> "set_grid", sub |-> s, raised |-> "none"]
    /\ UNCHANGED <<elements, multifigure, smartfigures>>

\* subfigures[s]._fill_in_missing_params(elements[e])
fill_in_missing_params(s, e) ==
    /\ elements' = [elements EXCEPT ![e] =
           SubFigure_fill_in_missing_params(subfigures[s].default_params, @)]
    /\ backend' = [op |-> "_fill_in_missing_params", sub |-> s, element |-> e,
                   before |-> elements, raised |-> "none"]
    /\ UNCHANGED <<multifigure, subfigures, smartfigures>>

\* multifigure._fill_in_missing_params(elements[e])
MultiFigure_fill_in_missing(e) ==
    /\ elements' = [elements EXCEPT ![e] =
           MultiFigure_fill_in_missing_params(multifigure.default_params, @)]
    /\ backend' = [op |-> "MultiFigure._fill_in_missing_params", element |-> e,
                   before |-> elements, raised |-> "none"]
    /\ UNCHANGED <<multifigure, subfigures, smartfigures>>

\* subfigures[s]._prepare_SubFigure(grid, legend=legend)
prepare_SubFigure(s, legend) ==
    LET r == SubFigure_prepare_SubFigure(elements, subfigures[s], legend)
    IN  /\ Len(r.sub._handles) <= MaxHandles
        /\ elements' = r.elements
        /\ subfigures' = [subfigures EXCEPT ![s] = r.sub]
        /\ backend' = [op |-> "_prepare_SubFigure", sub |-> s, legend |-> legend,
                       before |-> elements, raised |-> r.raised,
                       axes |-> <<r.axes>>, prepared |-> <<s>>,
                       figure_legends |-> <<>>,
                       returned |-> IF r.raised = "none"
                                    THEN <<r.sub._labels, r.sub._handles>>
                                    ELSE <<>>]
        /\ UNCHANGED <<multifigure, smartfigures>>

\* what display and save_figure share: self._prepare_MultiFigure(legend=legend)
PrepareCall(op, given, legend) ==
    LET r == MultiFigure_prepare_MultiFigure(elements, subfigures, multifigure, legend)
    IN  /\ \A s \in 1..Len(subfigures) : Len(r.subfigures[s]._handles) <= MaxHandles
        /\ elements' = r.elements
        /\ subfigures' = r.subfigures
        /\ backend' = [op |-> op, given |-> given, legend |-> legend,
                       raised |-> r.raised,
                       axes |-> r.axes,
                       prepared |-> SubSeq(multifigure._SubFigures, 1, Len(r.axes)),
                       figure_legends |-> r.figure_legends,
                       returned |-> <<>>]
        /\ UNCHANGED <<multifigure, smartfigures>>

\* MultiFigure.display(*given): given is <<>> or <<legend>>
display(given) ==
    PrepareCall("display", given,
                IF given = <<>> THEN display_legend_default ELSE given[1])

\* MultiFigure.save_figure(file_name, *given)
save_figure(given) ==
    PrepareCall("save_figure", given,
                IF given = <<>> THEN save_figure_legend_default ELSE given[1])

(***************************************************************************)
(* The elements the behaviours use, and the arguments the calls are given. *)
(***************************************************************************)
AllDefault == [v \in VarNames |-> "default"]

TheElements ==
    <<[type |-> "Curve", label |-> "Test Curve", _label |-> "Test Curve",
       vars |-> AllDefault],
      [type |-> "Curve", label |-> None, _label |-> None,
       vars |-> [AllDefault EXCEPT !["line_width"] = UserValue["line_width"]]]>>

Coordinates == {-1, 0, 1, 2}
Spans == {1}
Placements == {<<r, c, rs, cs>> : r \in Coordinates, c \in Coordinates,
                                  rs \in Spans, cs \in Spans}
Sizes == {<<3, 1>>, <<1, 3>>}
ShowGrid == {"default", "True", "False"}
LegendArguments == {<<>>, <<TRUE>>, <<FALSE>>}

(***************************************************************************)
(* The life of a MultiFigure: SubFigures are added, elements are added to  *)
(* them, the figure is displayed and saved, any number of times.           *)
(***************************************************************************)
Init ==
    /\ elements = TheElements
    /\ \E figure_style \in FigureStyles :
           multifigure = MultiFigureInit(2, 2, <<3, 1>>, figure_style)
    /\ subfigures = <<>>
    /\ smartfigures = <<>>
    /\ backend = [op |-> "MultiFigure", raised |-> "none"]

Next ==
    \/ \E p \in {<<0, 0, 1, 1>>, <<0, -1, 1, 1>>} : add_SubFigure(p, "default")
    \/ \E s \in 1..Len(subfigures), e \in 1..Len(elements) : add_element(s, e)
    \/ \E given \in {<<>>, <<TRUE>>} : display(given)
    \/ \E given \in {<<>>, <<FALSE>>} : save_figure(given)

Spec == Init /\ [][Next]_vars

(***************************************************************************)
(* SubFigures used on their own, each with a figure style of its own.      *)
(***************************************************************************)
InitSub ==
    /\ elements = TheElements
    /\ multifigure = MultiFigureInit(1, 1, <<3, 3>>, "plain")
    /\ subfigures = <<>>
    /\ smartfigures = <<>>
    /\ backend = [op |-> "MultiFigure", raised |-> "none"]

NextSub ==
    \/ \E style \in FigureStyles : new_SubFigure(<<0, 0, 1, 1>>, style, "default")
    \/ \E s \in 1..Len(subfigures), e \in 1..Len(elements) : add_element(s, e)
    \/ \E s \in 1..Len(subfigures), legend \in BOOLEAN : prepare_SubFigure(s, legend)

SpecSub == InitSub /\ [][NextSub]_vars

(***************************************************************************)
(* Placements: a MultiFigure of any small grid and size, to which          *)
(* SubFigures are added at any placement.                                  *)
(***************************************************************************)
GridCounts == {1, 2}

InitPlace ==
    /\ elements = TheElements
    /\ \E num_rows \in GridCounts, num_cols \in GridCounts, size \in Sizes :
           multifigure = MultiFigureInit(num_rows, num_cols, size, "plain")
    /\ subfigures = <<>>
    /\ smartfigures = <<>>
    /\ backend = [op |-> "MultiFigure", raised |-> "none"]

NextPlace ==
    \E p \in Placements : add_SubFigure(p, "default")

SpecPlace == InitPlace /\ [][NextPlace]_vars

(***************************************************************************)
(* Spans: the MultiFigures of SpecPlace, to which SubFigures that span one *)
(* or two rows and columns are added at the first cells of the grid.       *)
(***************************************************************************)
SpanningPlacements ==
    {<<r, c, rs, cs>> : r \in {0, 1}, c \in {0, 1}, rs \in {1, 2}, cs \in {1, 2}}

NextSpan ==
    \E p \in SpanningPlacements : add_SubFigure(p, "default")

SpecSpan == InitPlace /\ [][NextSpan]_vars

(***************************************************************************)
(* _fill_in_missing_params as a function: a curve with any attribute set   *)
(* by the user or left as "default", and a SubFigure whose style gives     *)
(* each error-bar attribute of a curve an ordinary value, "same as curve"  *)
(* or "same as scatter".                                                   *)
(***************************************************************************)
ErrorBarEntries == {"plain value", "same as curve", "same as scatter"}

PlainValue ==
    [color |-> "k", line_width |-> "2", face_color |-> "b",
     errorbars_color |-> "grey", errorbars_line_width |-> "1",
     cap_thickness |-> "4"]

CurveStyle(f) ==
    [k \in StyleKeys |->
        IF k \in DOMAIN f /\ f[k] # "plain value" THEN f[k] ELSE PlainValue[k]]

InitFill ==
    /\ \E given \in SUBSET VarNames :
           elements = <<[type |-> "Curve", label |-> "Test Curve",
                         _label |-> "Test Curve",
                         vars |-> [v \in VarNames |->
                                     IF v \in given THEN UserValue[v] ELSE "default"]]>>
    /\ multifigure = MultiFigureInit(1, 1, <<3, 3>>, "plain")
    /\ \E f \in [{"errorbars_color", "errorbars_line_width", "cap_thickness"}
                   -> ErrorBarEntries] :
           subfigures = <<[SubFigureInit(<<0, 0, 1, 1>>, "plain", "default")
                             EXCEPT !.default_params =
                                [Figure |-> [show_grid |-> "False"],
                                 Curve |-> CurveStyle(f)]]>>
    /\ smartfigures = <<>>
    /\ backend = [op |-> "SubFigure", raised |-> "none"]

NextFill ==
    fill_in_missing_params(1, 1)

SpecFill == InitFill /\ [][NextFill]_vars

(***************************************************************************)
(* The two _fill_in_missing_params side by side: a curve as in SpecFill, a *)
(* SubFigure and a MultiFigure that hold the same style dictionary, and    *)
(* either of them resolving the element.                                   *)
(***************************************************************************)
InitFillBoth ==
    /\ \E given \in SUBSET VarNames :
           elements = <<[type |-> "Curve", label |-> "Test Curve",
                         _label |-> "Test Curve",
                         vars |-> [v \in VarNames |->
                                     IF v \in given THEN UserValue[v] ELSE "default"]]>>
    /\ \E f \in [{"errorbars_color", "errorbars_line_width", "cap_thickness"}
                   -> ErrorBarEntries] :
           LET default_params == [Figure |-> [show_grid |-> "False"],
                                  Curve |-> CurveStyle(f)]
           IN  /\ multifigure = [MultiFigureInit(1, 1, <<3, 3>>, "plain")
                                   EXCEPT !.default_params = default_params]
               /\ subfigures = <<[SubFigureInit(<<0, 0, 1, 1>>, "plain", "default")
                                    EXCEPT !.default_params = default_params]>>
    /\ smartfigures = <<>>
    /\ backend = [op |-> "SubFigure", raised |-> "none"]

NextFillBoth ==
    \/ fill_in_missing_params(1, 1)
    \/ MultiFigure_fill_in_missing(1)

SpecFillBoth == InitFillBoth /\ [][NextFillBoth]_vars

(***************************************************************************)
(* Grids: SubFigures made by the constructor or by add_SubFigure with any  *)
(* show_grid, with or without a call of set_grid, then prepared.           *)
(***************************************************************************)
InitGrid ==
    /\ elements = TheElements
    /\ \E figure_style \in FigureStyles :
           multifigure = MultiFigureInit(1, 1, <<3, 3>>, figure_style)
    /\ subfigures = <<>>
    /\ smartfigures = <<>>
    /\ backend = [op |-> "MultiFigure", raised |-> "none"]

NextGrid ==
    \/ \E style \in FigureStyles, show_grid \in ShowGrid :
           new_SubFigure(<<0, 0, 1, 1>>, style, show_grid)
    \/ \E show_grid \in ShowGrid : add_SubFigure(<<0, 0, 1, 1>>, show_grid)
    \/ \E s \in 1..Len(subfigures) : add_element(s, 1)
    \/ \E s \in 1..Len(subfigures) : set_grid(s)
    \/ \E s \in 1..Len(subfigures) : prepare_SubFigure(s, TRUE)
    \/ display(<<>>)

SpecGrid == InitGrid /\ [][NextGrid]_vars

(***************************************************************************)
(* Legends: one SubFigure and elements of every shape that add_element and *)
(* _prepare_SubFigure provide for, with label and _label, with label only, *)
(* with _label only, and with a label that is None.  The SubFigure is      *)
(* prepared while it has no handles: a first preparation.                  *)
(***************************************************************************)
ElementsOfEveryShape ==
    <<[type |-> "Curve", label |-> "Test Curve", _label |-> "Test Curve",
       vars |-> AllDefault],
      [type |-> "Curve", label |-> "dummy", _label |-> NoAttribute,
       vars |-> AllDefault],
      [type |-> "Curve", label |-> NoAttribute, _label |-> "hidden",
       vars |-> AllDefault],
      [type |-> "Curve", label |-> None, _label |-> None,
       vars |-> AllDefault]>>

InitLabels ==
    /\ elements = ElementsOfEveryShape
    /\ multifigure = MultiFigureInit(1, 1, <<3, 3>>, "plain")
    /\ subfigures = <<SubFigureInit(<<0, 0, 1, 1>>, "plain", "default")>>
    /\ smartfigures = <<>>
    /\ backend = [op |-> "SubFigure", raised |-> "none"]

NextLabels ==
    \/ \E e \in 1..Len(elements) : add_element(1, e)
    \/ \E legend \in BOOLEAN :
           subfigures[1]._handles = <<>> /\ prepare_SubFigure(1, legend)

SpecLabels == InitLabels /\ [][NextLabels]_vars

(***************************************************************************)
(* graphinglib/tools.py: MathematicalObject, the reflected operators       *)
(* written in terms of the operators of the children class.                *)
(*                                                                         *)
(* Numbers are exact fractions <<numerator, denominator>> in lowest terms  *)
(* with a positive denominator.  A call returns [raised, value]: value is  *)
(* <<>> when the call raised.                                              *)
(***************************************************************************)
\* the integers -MaxNumber..MaxNumber are the numerators and the operands
MaxNumber == 3

Abs(n) == IF n < 0 THEN -n ELSE n

RECURSIVE Gcd(_, _)
Gcd(a, b) == IF b = 0 THEN a ELSE Gcd(b, a % b)

Fraction(n, d) ==
    LET g == Gcd(Abs(n), Abs(d))
        s == IF d < 0 THEN -1 ELSE 1
    IN  <<(s * n) \div g, (s * d) \div g>>

Value(x) == [raised |-> "none", value |-> x]
Raise(exception) == [raised |-> exception, value |-> <<>>]

\* The children class: __add__, __sub__, __mul__, __truediv__ and __pow__
\* are the arithmetic of the number the object wraps.  x / 0 and 0 ** (-k)
\* raise ZeroDivisionError, as they do for Python's numbers.
Wrapped_add(v, other) == Value(Fraction(v[1] * other[2] + other[1] * v[2], v[2] * other[2]))

Wrapped_sub(v, other) == Value(Fraction(v[1] * other[2] - other[1] * v[2], v[2] * other[2]))

Wrapped_mul(v, other) == Value(Fraction(v[1] * other[1], v[2] * other[2]))

Wrapped_truediv(v, other) ==
    IF other[1] = 0 THEN Raise("ZeroDivisionError")
    ELSE Value(Fraction(v[1] * other[2], v[2] * other[1]))

RECURSIVE Power(_, _)
Power(v, k) == IF k = 0 THEN <<1, 1>> ELSE Wrapped_mul(Power(v, k - 1), v).value

Wrapped_pow(v, exponent) ==
    IF exponent >= 0 THEN Value(Power(v, exponent))
    ELSE IF v[1] = 0 THEN Raise("ZeroDivisionError")
    ELSE Value(Power(Fraction(v[2], v[1]), -exponent))

MathematicalObject_radd(v, other) == Wrapped_add(v, other)

MathematicalObject_rsubNoMinusOne(v, other) == Wrapped_sub(v, other)

\* self.__sub__(other) * (-1)
MathematicalObject_rsub(v, other) ==
    LET difference == Wrapped_sub(v, other)
    IN  IF difference.raised # "none" THEN difference
        ELSE Wrapped_mul(difference.value, <<-1, 1>>)

MathematicalObject_rmul(v, other) == Wrapped_mul(v, other)

\* self.__truediv__(other) ** (-1); a ZeroDivisionError of either step is
\* caught and a ZeroDivisionError with another message is raised
MathematicalObject_rtruediv(v, other) ==
    LET quotient == Wrapped_truediv(v, other)
        inverse  == Wrapped_pow(quotient.value, -1)
    IN  IF quotient.raised = "ZeroDivisionError" THEN Raise("ZeroDivisionError")
        ELSE IF inverse.raised = "ZeroDivisionError" THEN Raise("ZeroDivisionError")
        ELSE inverse

MathematicalObject_rpow(v, other) == Raise("NotImplementedError")

\* other <op> elements[o]: Python calls the reflected method of the object
Reflected(op, o, other, result) ==
    /\ backend' = [op |-> op, self |-> elements[o].value, other |-> other,
                   raised |-> result.raised, returned |-> result.value]
    /\ UNCHANGED <<elements, multifigure, subfigures, smartfigures>>

radd(o, other) ==
    Reflected("__radd__", o, other, MathematicalObject_radd(elements[o].value, other))

rsub(o, other) ==
    Reflected("__rsub__", o, other, MathematicalObject_rsub(elements[o].value, other))

rmul(o, other) ==
    Reflected("__rmul__", o, other, MathematicalObject_rmul(elements[o].value, other))

rtruediv(o, other) ==
    Reflected("__rtruediv__", o, other, MathematicalObject_rtruediv(elements[o].value, other))

rpow(o, other) ==
    Reflected("__rpow__", o, other, MathematicalObject_rpow(elements[o].value, other))

\* the numbers on the left of the operator: integers, 0 among them
Numbers == {Fraction(n, 1) : n \in -MaxNumber..MaxNumber}

\* the numbers the objects wrap: integers and halves
WrappedNumbers == {Fraction(n, d) : n \in -MaxNumber..MaxNumber, d \in {1, 2}}

InitMath ==
    /\ \E v \in WrappedNumbers : elements = <<[type |-> "Wrapped", value |-> v]>>
    /\ multifigure = MultiFigureInit(1, 1, <<3, 3>>, "plain")
    /\ subfigures = <<>>
    /\ smartfigures = <<>>
    /\ backend = [op |-> "Wrapped", raised |-> "none"]

NextMath ==
    \/ \E other \in Numbers : radd(1, other)
    \/ \E other \in Numbers : rsub(1, other)
    \/ \E other \in Numbers : rmul(1, other)
    \/ \E other \in Numbers : rtruediv(1, other)
    \/ \E other \in Numbers : rpow(1, other)

SpecMath == InitMath /\ [][NextMath]_vars

(***************************************************************************)
(* graphinglib/data_plotting_2d.py: Heatmap and VectorField.               *)
(*                                                                         *)
(* An optional range is a sequence: <<>> is None, <<x0, x1>> is the tuple  *)
(* (x0, x1), and + of two tuples is \o.  What _plot_element asks of the    *)
(* axes and of the figure is the sequence of calls it makes, each with its *)
(* keyword arguments.                                                      *)
(***************************************************************************)
NoRange == <<>>

\* images given as a file name (a str), and what imread makes of them
ImageFiles == {"image.png"}
imread == [file \in ImageFiles |-> "pixels of image.png"]

\* Heatmap.__init__ (the dataclass's) followed by __post_init__
HeatmapPostInitKeepsColorBar(image, x_axis_range, y_axis_range, show_color_bar) ==
    LET self == [type |-> "Heatmap",
                 image |-> IF image \in ImageFiles THEN imread[image] ELSE image,
                 x_axis_range |-> x_axis_range,
                 y_axis_range |-> y_axis_range,
                 color_map |-> "default",
                 show_color_bar |-> show_color_bar,
                 alpha_value |-> "1.0",
                 aspect_ratio |-> "default",
                 origin_position |-> "default",
                 interpolation |-> "none"]
    IN  IF x_axis_range # NoRange /\ y_axis_range # NoRange
        THEN [_xy_range |-> x_axis_range \o y_axis_range] @@ self
        ELSE self

Heatmap_post_init(image, x_axis_range, y_axis_range, show_color_bar) ==
    LET self == [type |-> "Heatmap",
                 image |-> IF image \in ImageFiles THEN imread[image] ELSE image,
                 x_axis_range |-> x_axis_range,
                 y_axis_range |-> y_axis_range,
                 color_map |-> "default",
                 show_color_bar |-> IF image \in ImageFiles THEN "False"
                                    ELSE show_color_bar,
                 alpha_value |-> "1.0",
                 aspect_ratio |-> "default",
                 origin_position |-> "default",
                 interpolation |-> "none"]
    IN  IF x_axis_range # NoRange /\ y_axis_range # NoRange
        THEN [_xy_range |-> x_axis_range \o y_axis_range] @@ self
        ELSE self

\* Heatmap.from_function: cls(z, x_axis_range, y_axis_range, ...), z being
\* func on the mesh of the two ranges
Heatmap_from_function(x_axis_range, y_axis_range, show_color_bar) ==
    Heatmap_post_init("func(x_grid, y_grid)", x_axis_range, y_axis_range,
                      show_color_bar)

imshow(self, z_order) ==
    [call |-> "imshow", image |-> self.image, cmap |-> self.color_map,
     alpha |-> self.alpha_value, aspect |-> self.aspect_ratio,
     origin |-> self.origin_position, interpolation |-> self.interpolation,
     zorder |-> z_order]

Heatmap_plot_elementSwappedExtent(self, z_order) ==
    LET image ==
            IF self.x_axis_range # NoRange /\ self.y_axis_range # NoRange
            THEN [extent |-> self.y_axis_range \o self.x_axis_range] @@ imshow(self, z_order)
            ELSE imshow(self, z_order)
    IN  IF self.show_color_bar = "True"
        THEN <<image, [call |-> "colorbar", ax |-> "axes"]>>
        ELSE <<image>>

\* Heatmap._plot_element: the calls made
Heatmap_plot_element(self, z_order) ==
    LET image ==
            IF self.x_axis_range # NoRange /\ self.y_axis_range # NoRange
            THEN [extent |-> self._xy_range] @@ imshow(self, z_order)
            ELSE imshow(self, z_order)
    IN  IF self.show_color_bar = "True"
        THEN <<image, [call |-> "colorbar", ax |-> "axes"]>>
        ELSE <<image>>

\* VectorField.__init__ (the dataclass's) followed by __post_init__
VectorField_post_init(arrow_length_multiplier, angle_in_data_coords) ==
    [type |-> "VectorField",
     x_data |-> "x", y_data |-> "y", u_data |-> "u", v_data |-> "v",
     arrow_length_multiplier |-> arrow_length_multiplier,
     arrow_width |-> "default",
     arrow_head_width |-> "default",
     arrow_head_length |-> "default",
     arrow_head_axis_length |-> "default",
     angle_in_data_coords |-> angle_in_data_coords,
     color |-> "default"]

\* VectorField._plot_element: the call made (line 305, scale=..., is a comment)
VectorField_plot_element(self, z_order) ==
    <<[call |-> "quiver",
       x |-> self.x_data, y |-> self.y_data, u |-> self.u_data, v |-> self.v_data,
       color |-> self.color,
       zorder |-> z_order,
       angles |-> IF self.angle_in_data_coords = "True" THEN "xy" ELSE "uv",
       width |-> self.arrow_width,
       headwidth |-> self.arrow_head_width,
       headlength |-> self.arrow_head_length,
       headaxislength |-> self.arrow_head_axis_length]>>

Construct(op, given, object) ==
    /\ elements = <<>>
    /\ elements' = <<object>>
    /\ backend' = [op |-> op, given |-> given, raised |-> "none"]
    /\ UNCHANGED <<multifigure, subfigures, smartfigures>>

Heatmap(image, x_axis_range, y_axis_range, show_color_bar) ==
    Construct("Heatmap",
              [image |-> image, x_axis_range |-> x_axis_range,
               y_axis_range |-> y_axis_range, show_color_bar |-> show_color_bar],
              Heatmap_post_init(image, x_axis_range, y_axis_range, show_color_bar))

from_function(x_axis_range, y_axis_range, show_color_bar) ==
    Construct("Heatmap.from_function",
              [image |-> "func(x_grid, y_grid)", x_axis_range |-> x_axis_range,
               y_axis_range |-> y_axis_range, show_color_bar |-> show_color_bar],
              Heatmap_from_function(x_axis_range, y_axis_range, show_color_bar))

VectorField(arrow_length_multiplier, angle_in_data_coords) ==
    Construct("VectorField",
              [arrow_length_multiplier |-> arrow_length_multiplier,
               angle_in_data_coords |-> angle_in_data_coords],
              VectorField_post_init(arrow_length_multiplier, angle_in_data_coords))

\* element._plot_element(axes, z_order), on axes of a new figure
plot_element(e, z_order) ==
    /\ elements[e].type \in {"Heatmap", "VectorField"}
    /\ backend' = [op |-> "_plot_element", element |-> e, z_order |-> z_order,
                   raised |-> "none",
                   calls |-> IF elements[e].type = "Heatmap"
                             THEN Heatmap_plot_element(elements[e], z_order)
                             ELSE VectorField_plot_element(elements[e], z_order)]
    /\ UNCHANGED <<elements, multifigure, subfigures, smartfigures>>

Images == {"array"} \cup ImageFiles
XRanges == {<<0, 10>>, <<-1, 1>>}
YRanges == {<<0, 11>>, <<-1, 1>>}
ColorBar == {"True", "False"}
AngleInDataCoords == {"True", "False"}
ArrowLengthMultipliers == {"default", "None", "1", "2"}
ZOrders == {0, 2}

InitPlot2D ==
    /\ elements = <<>>
    /\ multifigure = MultiFigureInit(1, 1, <<3, 3>>, "plain")
    /\ subfigures = <<>>
    /\ smartfigures = <<>>
    /\ backend = [op |-> "none", raised |-> "none"]

NextPlot2D ==
    \/ \E image \in Images, x \in XRanges \cup {NoRange}, y \in YRanges \cup {NoRange},
          show_color_bar \in ColorBar : Heatmap(image, x, y, show_color_bar)
    \/ \E x \in XRanges, y \in YRanges, show_color_bar \in ColorBar :
           from_function(x, y, show_color_bar)
    \/ \E m \in ArrowLengthMultipliers, angle \in AngleInDataCoords :
           VectorField(m, angle)
    \/ \E e \in 1..Len(elements), z_order \in ZOrders : plot_element(e, z_order)

SpecPlot2D == InitPlot2D /\ [][NextPlot2D]_vars

(***************************************************************************)
(* SmartFigure and SmartTwinAxis (graphinglib/smart_figure.py), as         *)
(* unit_testing/smart_figure_test.py uses them.  A dict is a function from *)
(* its keys; an optional twin axis is a sequence, <<>> being None and      *)
(* <<t>> the SmartTwinAxis smartfigures[t].                                *)
(***************************************************************************)
\* calls made on one object in a behaviour
MaxCalls == 3

EmptyDict == [key \in {} |-> None]

\* dict.update: the entries of other replace or extend those of dict
Update(dict, other) ==
    [key \in DOMAIN dict \cup DOMAIN other |->
        IF key \in DOMAIN other THEN other[key] ELSE dict[key]]

\* SmartFigure(num_rows, num_cols)
SmartFigureInit(num_rows, num_cols) ==
    [type |-> "SmartFigure",
     num_rows |-> num_rows,
     num_cols |-> num_cols,
     _user_rc_dict |-> EmptyDict,
     _custom_legend_handles |-> <<>>,
     _custom_legend_labels |-> <<>>,
     _twin_x_axis |-> <<>>,
     _twin_y_axis |-> <<>>]

\* SmartTwinAxis(label)
SmartTwinAxisInit(label) ==
    [type |-> "SmartTwinAxis",
     label |-> label,
     _user_rc_dict |-> EmptyDict]

set_rc_paramsNoReset(self, rc_params_dict, reset) ==
    [self EXCEPT !._user_rc_dict = Update(@, rc_params_dict)]

\* SmartFigure.set_rc_params and SmartTwinAxis.set_rc_params
SmartFigure_set_rc_params(self, rc_params_dict, reset) ==
    [self EXCEPT !._user_rc_dict =
        Update(IF reset THEN EmptyDict ELSE @, rc_params_dict)]

\* a call on the object o; the calls made so far are kept in backend.log
Called(o, call) ==
    /\ Len(backend.log) < MaxCalls
    /\ backend' = [op |-> call.op, object |-> o, raised |-> call.raised,
                   log |-> Append(backend.log, call)]

set_rc_params(o, rc_params_dict, reset) ==
    /\ Called(o, [op |-> "set_rc_params", rc_params_dict |-> rc_params_dict,
                  reset |-> reset, raised |-> "none"])
    /\ smartfigures' = [smartfigures EXCEPT
                          ![o] = SmartFigure_set_rc_params(@, rc_params_dict, reset)]
    /\ UNCHANGED <<elements, multifigure, subfigures>>

\* the dicts of test_update_rc_params and test_update_rc_params_reset, and
\* the default {}; the key "lines.linewidth" is written lines_linewidth
RcParams ==
    {EmptyDict,
     [lines_linewidth |-> "2", axes_labelsize |-> "10", axes_titlesize |-> "10"],
     [lines_linewidth |-> "3", axes_grid |-> "True"],
     [lines_linewidth |-> "3"]}

InitRc ==
    /\ elements = <<>>
    /\ multifigure = MultiFigureInit(1, 1, <<3, 3>>, "plain")
    /\ subfigures = <<>>
    /\ \/ smartfigures = <<SmartFigureInit(1, 1)>>
       \/ smartfigures = <<SmartTwinAxisInit(None)>>
    /\ backend = [op |-> smartfigures[1].type, object |-> 1, raised |-> "none",
                  log |-> <<>>]

NextRc ==
    \E rc_params_dict \in RcParams, reset \in BOOLEAN :
        set_rc_params(1, rc_params_dict, reset)

SpecRc == InitRc /\ [][NextRc]_vars

(***************************************************************************)
(* SmartFigure.set_custom_legend.  The argument elements is <<>> when it   *)
(* is left as None, or <<[iterable, items]>>: whether iter() accepts it    *)
(* and the entries it yields.  An entry is a LegendElement, with a handle  *)
(* and a label, or something else.  A str yields its characters, which are *)
(* no LegendElements.                                                      *)
(*                                                                         *)
(* The tests show that a call with a bad argument raises TypeError; they   *)
(* do not show what a call with reset=True has done to the lists when it   *)
(* raises.  Both outcomes are possible results: the lists as they were,    *)
(* and the lists emptied.                                                  *)
(***************************************************************************)
IsLegendElement(entry) == entry.class \in {"LegendLine", "LegendPatch"}

Accepted(legend_elements) ==
    \/ legend_elements = <<>>
    \/ /\ legend_elements[1].iterable
       /\ \A i \in 1..Len(legend_elements[1].items) : IsLegendElement(legend_elements[1].items[i])

Items(legend_elements) == IF legend_elements = <<>> THEN <<>> ELSE legend_elements[1].items

Handles(items) == [i \in 1..Len(items) |-> items[i].handle]
Labels(items) == [i \in 1..Len(items) |-> items[i].label]

\* the entries before the first one that is not a LegendElement
RECURSIVE GoodPrefix(_)
GoodPrefix(items) ==
    IF items = <<>> \/ ~IsLegendElement(Head(items)) THEN <<>>
    ELSE <<Head(items)>> \o GoodPrefix(Tail(items))

Emptied(self, reset) ==
    IF reset
    THEN [self EXCEPT !._custom_legend_handles = <<>>, !._custom_legend_labels = <<>>]
    ELSE self

set_custom_legendAddsUntilRejected(self, legend_elements, reset) ==
    IF Accepted(legend_elements)
    THEN {[self |-> [Emptied(self, reset) EXCEPT
                       !._custom_legend_handles = @ \o Handles(Items(legend_elements)),
                       !._custom_legend_labels = @ \o Labels(Items(legend_elements))],
           raised |-> "none"]}
    ELSE {[self |-> [self EXCEPT
                       !._custom_legend_handles = @ \o Handles(GoodPrefix(Items(legend_elements))),
                       !._custom_legend_labels = @ \o Labels(GoodPrefix(Items(legend_elements)))],
           raised |-> "TypeError"]}

\* the possible results [self, raised] of self.set_custom_legend(legend_elements, reset)
SmartFigure_set_custom_legend(self, legend_elements, reset) ==
    IF Accepted(legend_elements)
    THEN {[self |-> [Emptied(self, reset) EXCEPT
                       !._custom_legend_handles = @ \o Handles(Items(legend_elements)),
                       !._custom_legend_labels = @ \o Labels(Items(legend_elements))],
           raised |-> "none"]}
    ELSE {[self |-> self, raised |-> "TypeError"],
          [self |-> Emptied(self, reset), raised |-> "TypeError"]}

set_custom_legend(o, legend_elements, reset) ==
    \E result \in SmartFigure_set_custom_legend(smartfigures[o], legend_elements, reset) :
        /\ Called(o, [op |-> "set_custom_legend", elements |-> legend_elements,
                      reset |-> reset, raised |-> result.raised,
                      emptied |-> reset /\ result.self # smartfigures[o]])
        /\ smartfigures' = [smartfigures EXCEPT ![o] = result.self]
        /\ UNCHANGED <<elements, multifigure, subfigures>>

LegendLine(label, color) ==
    [class |-> "LegendLine", label |-> label, handle |-> <<"Line2D", label, color>>]

NotALegendElement == [class |-> "str"]

\* the arguments of test_set_custom_legend and test_methods_return_self,
\* and a number, which is not iterable
LegendArgumentsGiven ==
    {<<>>,
     <<[iterable |-> TRUE, items |-> <<>>]>>,
     <<[iterable |-> TRUE, items |-> <<LegendLine("Test line", "green")>>]>>,
     <<[iterable |-> TRUE, items |-> <<LegendLine("Other line", "red"),
                                       LegendLine("Test line", "green")>>]>>,
     <<[iterable |-> TRUE, items |-> <<NotALegendElement>>]>>,
     <<[iterable |-> TRUE, items |-> <<LegendLine("Test line", "green"),
                                       NotALegendElement>>]>>,
     <<[iterable |-> FALSE, items |-> <<>>]>>}

InitLegend ==
    /\ elements = <<>>
    /\ multifigure = MultiFigureInit(1, 1, <<3, 3>>, "plain")
    /\ subfigures = <<>>
    /\ smartfigures = <<SmartFigureInit(1, 1)>>
    /\ backend = [op |-> "SmartFigure", object |-> 1, raised |-> "none", log |-> <<>>]

NextLegend ==
    \E given \in LegendArgumentsGiven, reset \in BOOLEAN :
        set_custom_legend(1, given, reset)

SpecLegend == InitLegend /\ [][NextLegend]_vars

(***************************************************************************)
(* SmartFigure.create_twin_axis and the properties twin_x_axis and         *)
(* twin_y_axis.  A result is [smartfigures, raised, returned]: the objects *)
(* after the call, the exception and, in a sequence, the value returned.   *)
(***************************************************************************)
HasSubplots(self) == self.num_rows * self.num_cols > 1

TwinField(is_y) == IF is_y THEN "_twin_y_axis" ELSE "_twin_x_axis"

create_twin_axisNoDuplicateCheck(figures, o, is_y, label) ==
    IF HasSubplots(figures[o])
    THEN [smartfigures |-> figures, raised |-> "GraphingException", returned |-> <<>>]
    ELSE LET twin == Len(figures) + 1
         IN  [smartfigures |-> Append([figures EXCEPT ![o][TwinField(is_y)] = <<twin>>],
                                      SmartTwinAxisInit(label)),
              raised |-> "none",
              returned |-> <<twin>>]

\* figures[o].create_twin_axis(is_y, label)
SmartFigure_create_twin_axis(figures, o, is_y, label) ==
    IF HasSubplots(figures[o]) \/ figures[o][TwinField(is_y)] # <<>>
    THEN [smartfigures |-> figures, raised |-> "GraphingException", returned |-> <<>>]
    ELSE LET twin == Len(figures) + 1
         IN  [smartfigures |-> Append([figures EXCEPT ![o][TwinField(is_y)] = <<twin>>],
                                      SmartTwinAxisInit(label)),
              raised |-> "none",
              returned |-> <<twin>>]

\* figures[o].twin_x_axis = value and figures[o].twin_y_axis = value
SmartFigure_set_twin_axis(figures, o, is_y, value) ==
    IF HasSubplots(figures[o]) /\ value # <<>>
    THEN [smartfigures |-> figures, raised |-> "GraphingException", returned |-> <<>>]
    ELSE [smartfigures |-> [figures EXCEPT ![o][TwinField(is_y)] = value],
          raised |-> "none",
          returned |-> <<>>]

TwinCall(o, call, result) ==
    /\ Called(o, [op |-> call.op, is_y |-> call.is_y, given |-> call.given,
                  before |-> smartfigures, raised |-> result.raised,
                  returned |-> result.returned])
    /\ smartfigures' = result.smartfigures
    /\ UNCHANGED <<elements, multifigure, subfigures>>

create_twin_axis(o, is_y, label) ==
    TwinCall(o, [op |-> "create_twin_axis", is_y |-> is_y, given |-> <<label>>],
             SmartFigure_create_twin_axis(smartfigures, o, is_y, label))

set_twin_x_axis(o, value) ==
    TwinCall(o, [op |-> "twin_x_axis", is_y |-> FALSE, given |-> value],
             SmartFigure_set_twin_axis(smartfigures, o, FALSE, value))

set_twin_y_axis(o, value) ==
    TwinCall(o, [op |-> "twin_y_axis", is_y |-> TRUE, given |-> value],
             SmartFigure_set_twin_axis(smartfigures, o, TRUE, value))

TwinLabels == {None, "Twin"}
SubplotCounts == {<<1, 1>>, <<2, 2>>, <<1, 2>>}

\* the SmartTwinAxes that exist, as values of the properties; None with them
TwinValues == {<<>>} \cup {<<t>> : t \in {t \in 1..Len(smartfigures) :
                                            smartfigures[t].type = "SmartTwinAxis"}}

\* the figure and the twin axis of setUp, the figure with any grid
InitTwin ==
    /\ elements = <<>>
    /\ multifigure = MultiFigureInit(1, 1, <<3, 3>>, "plain")
    /\ subfigures = <<>>
    /\ \E grid \in SubplotCounts :
           smartfigures = <<SmartFigureInit(grid[1], grid[2]), SmartTwinAxisInit(None)>>
    /\ backend = [op |-> "SmartFigure", object |-> 1, raised |-> "none", log |-> <<>>]

NextTwin ==
    \/ \E is_y \in BOOLEAN, label \in TwinLabels : create_twin_axis(1, is_y, label)
    \/ \E value \in TwinValues : set_twin_x_axis(1, value)
    \/ \E value \in TwinValues : set_twin_y_axis(1, value)

SpecTwin == InitTwin /\ [][NextTwin]_vars

(***************************************************************************)
(* SmartFigure._validate_and_normalize_key, for a key (row, column) whose  *)
(* two parts are integers or slices.  A bound of a slice is <<>> when it   *)
(* is None and <<b>> when it is the integer b.                             *)
(*                                                                         *)
(* The tests show the exception of a key with one defect.  For a key with  *)
(* a step and a bound out of range, either of ValueError and IndexError is *)
(* a possible result.                                                      *)
(***************************************************************************)
\* the integers and the slice bounds of the keys are in -MaxIndex..MaxIndex
MaxIndex == 4

Index(i) == [class |-> "int", i |-> i]
Slice(start, stop, step) ==
    [class |-> "slice", start |-> start, stop |-> stop, step |-> step]

\* a slice bound counted from the start of an axis of length n
FromStartNoOffset(bound, default, n) ==
    IF bound = <<>> THEN default ELSE bound[1]

FromStart(bound, default, n) ==
    IF bound = <<>> THEN default
    ELSE IF bound[1] < 0 THEN bound[1] + n
    ELSE bound[1]

\* the exceptions that the part k of a key, on an axis of length n, calls for
AxisDefects(k, n) ==
    IF k.class = "int"
    THEN IF k.i < -n \/ k.i >= n THEN {"IndexError"} ELSE {}
    ELSE LET start == FromStart(k.start, 0, n)
             stop  == FromStart(k.stop, n, n)
         IN  (IF k.step # <<>> THEN {"ValueError"} ELSE {})
                \cup (IF start < 0 \/ stop > n \/ start >= stop
                      THEN {"IndexError"} ELSE {})

NormalizedAxis(k, n) ==
    IF k.class = "int"
    THEN LET i == IF k.i < 0 THEN k.i + n ELSE k.i
         IN  Slice(<<i>>, <<i + 1>>, <<>>)
    ELSE Slice(<<FromStart(k.start, 0, n)>>, <<FromStart(k.stop, n, n)>>, <<>>)

\* the possible results [raised, returned] of self._validate_and_normalize_key(key)
SmartFigure_validate_and_normalize_key(self, key) ==
    LET defects == AxisDefects(key[1], self.num_rows)
                      \cup AxisDefects(key[2], self.num_cols)
    IN  IF defects = {}
        THEN {[raised |-> "none",
               returned |-> <<NormalizedAxis(key[1], self.num_rows),
                              NormalizedAxis(key[2], self.num_cols)>>]}
        ELSE {[raised |-> exception, returned |-> <<>>] : exception \in defects}

validate_and_normalize_key(o, key) ==
    \E result \in SmartFigure_validate_and_normalize_key(smartfigures[o], key) :
        /\ backend' = [op |-> "_validate_and_normalize_key", object |-> o,
                       key |-> key, raised |-> result.raised,
                       returned |-> result.returned]
        /\ UNCHANGED <<elements, multifigure, subfigures, smartfigures>>

Bounds == {<<>>} \cup {<<b>> : b \in -MaxIndex..MaxIndex}

\* the parts of a key: every integer and every slice, without a step or with
\* the step 2
AxisKeys ==
    {Index(i) : i \in -MaxIndex..MaxIndex}
        \cup {Slice(start, stop, step) :
                start \in Bounds, stop \in Bounds, step \in {<<>>, <<2>>}}

\* the other part of the key: in range, out of range, with a step
OtherAxisKeys ==
    {Index(0), Index(-1), Slice(<<>>, <<>>, <<>>), Index(MaxIndex), Slice(<<>>, <<>>, <<2>>)}

Keys ==
    {<<k, other>> : k \in AxisKeys, other \in OtherAxisKeys}
        \cup {<<other, k>> : k \in AxisKeys, other \in OtherAxisKeys}

\* fig_2x3 and fig_3x1 of setUp, and a 1x2 figure
GridShapes == {<<2, 3>>, <<3, 1>>, <<1, 2>>}

InitKey ==
    /\ elements = <<>>
    /\ multifigure = MultiFigureInit(1, 1, <<3, 3>>, "plain")
    /\ subfigures = <<>>
    /\ \E grid \in GridShapes : smartfigures = <<SmartFigureInit(grid[1], grid[2])>>
    /\ backend = [op |-> "SmartFigure", object |-> 1, raised |-> "none", log |-> <<>>]

\* the method changes nothing: one call on each figure shows what it does
NextKey ==
    /\ backend.op = "SmartFigure"
    /\ \E key \in Keys : validate_and_normalize_key(1, key)

SpecKey == InitKey /\ [][NextKey]_vars

(***************************************************************************)
(* The claims.                                                             *)
(***************************************************************************)
PreparedFigure == backend.op \in {"display", "save_figure"}

Returned == backend.raised = "none"

\* C1: display / save_figure / _prepare_MultiFigure that returns, called with
\* legend=True, has drawn exactly one figure-level legend and no SubFigure has
\* drawn a legend of its own; called with legend=False, it has drawn no
\* figure-level legend and every SubFigure with at least one label has drawn
\* its own legend.  (A call that raises is the matter of C10.)
C1_OneLegendOrOnePerSubFigure ==
    (PreparedFigure /\ Returned) =>
        /\ backend.prepared = multifigure._SubFigures
        /\ IF backend.legend
           THEN /\ Len(backend.figure_legends) = 1
                /\ \A k \in 1..Len(backend.axes) : backend.axes[k].legends = <<>>
           ELSE /\ backend.figure_legends = <<>>
                /\ \A k \in 1..Len(backend.axes) :
                       subfigures[backend.prepared[k]]._labels # <<>>
                           => Len(backend.axes[k].legends) = 1

\* a figure of two SubFigures, one of them with labels, displayed with legend=True
C1_Witness ==
    /\ PreparedFigure /\ Returned /\ backend.legend
    /\ Len(backend.axes) = 2
    /\ \E k \in 1..2 : subfigures[backend.prepared[k]]._labels # <<>>
    /\ Len(backend.figure_legends) = 1

\* C2: for a non-negative (row, column), add_SubFigure raises GraphingException
\* if and only if row >= num_rows or column >= num_cols.
C2_RaisesIffOutsideGrid ==
    (/\ backend.op = "add_SubFigure"
     /\ backend.placement[1] >= 0
     /\ backend.placement[2] >= 0)
        => (backend.raised = "GraphingException"
              <=> \/ backend.placement[1] >= multifigure.num_rows
                  \/ backend.placement[2] >= multifigure.num_cols)

\* C3: add_SubFigure with a negative row or column raises GraphingException,
\* and a call that raises leaves the list of SubFigures as it was.
C3_NegativeRaisesAndAddsNothing ==
    /\ [](backend.op = "add_SubFigure"
            /\ (backend.placement[1] < 0 \/ backend.placement[2] < 0)
          => backend.raised = "GraphingException")
    /\ [][(backend'.op = "add_SubFigure" /\ backend'.raised = "GraphingException")
            => /\ multifigure'._SubFigures = multifigure._SubFigures
               /\ subfigures' = subfigures]_vars

\* a negative row refused by the check of line 406, on a MultiFigure that
\* already holds a SubFigure
C3_Witness ==
    /\ backend.op = "add_SubFigure"
    /\ backend.placement[1] < 0
    /\ backend.raised = "GraphingException"
    /\ backend.message = "cannot be negative"
    /\ Len(multifigure._SubFigures) >= 1

FilledElement == backend.op = "_fill_in_missing_params"

Before(v) == backend.before[backend.element].vars[v]

After(v) == elements[backend.element].vars[v]

StyleEntry(v) ==
    subfigures[backend.sub].default_params[elements[backend.element].type][v]

Markers == {"same as curve", "same as scatter"}

ErrorBarVars == {"errorbars_color", "errorbars_line_width", "cap_thickness"}

\* C4: _fill_in_missing_params changes only the attributes that held "default":
\* every attribute the user set keeps its value.
C4_UserValuesKept ==
    FilledElement => \A v \in VarNames : Before(v) # "default" => After(v) = Before(v)

\* C5: after _fill_in_missing_params every attribute that held "default" holds
\* the style's value for (type name, attribute name) and no attribute holds
\* "default".
C5_DefaultsTakeStyleEntry ==
    FilledElement =>
        /\ \A v \in VarNames : Before(v) = "default" => After(v) = StyleEntry(v)
        /\ \A v \in VarNames : After(v) # "default"

\* C5 as amended: an attribute other than the three error-bar attributes that
\* held "default" and whose style entry is not "same as curve" or "same as
\* scatter" holds the style's entry; under a style with no such entry for the
\* type (and no entry "default") this is so of every attribute, and no
\* attribute holds "default".
C5_DefaultsTakeOrdinaryEntry ==
    FilledElement =>
        /\ \A v \in VarNames \ ErrorBarVars :
               (Before(v) = "default" /\ StyleEntry(v) \notin Markers)
                   => After(v) = StyleEntry(v)
        /\ (\A k \in StyleKeys : StyleEntry(k) \notin Markers \cup {"default"})
               => /\ \A v \in VarNames :
                         Before(v) = "default" => After(v) = StyleEntry(v)
                  /\ \A v \in VarNames : After(v) # "default"

\* a curve with every attribute "default" resolved against a style with no
\* "same as ..." entry
C5_Witness ==
    /\ FilledElement
    /\ \A v \in VarNames : Before(v) = "default"
    /\ \A k \in StyleKeys : StyleEntry(k) \notin Markers
    /\ \A v \in VarNames : After(v) = StyleEntry(v)

PreparedSubFigure == backend.op = "_prepare_SubFigure"

\* C6: after _prepare_SubFigure returns, every element attribute that held
\* "default" before the call holds "default" again, and every element is
\* plotted with the defaults of the style of the SubFigure that plots it.
C6_DefaultsAreReset ==
    (PreparedSubFigure /\ Returned) =>
        /\ \A e \in 1..Len(elements) : \A v \in VarNames :
               backend.before[e].vars[v] = "default" => elements[e].vars[v] = "default"
        /\ \A k \in 1..Len(backend.axes[1].plotted) :
               LET drawn == backend.axes[1].plotted[k]
               IN  drawn.vars =
                       SubFigure_fill_in_missing_params(
                           subfigures[backend.sub].default_params,
                           TheElements[drawn.element]).vars

\* the handles a first preparation of the SubFigure gives: one for each of its
\* elements with a label
RECURSIVE HandlesOf(_, _)
HandlesOf(list, k) ==
    IF k > Len(list)
    THEN <<>>
    ELSE (IF elements[list[k]]._label \notin {NoAttribute, None}
          THEN <<list[k]>> ELSE <<>>) \o HandlesOf(list, k + 1)

\* C7: every preparation of a SubFigure returns the labels and the handles that
\* a first preparation of it returns: the handles list does not grow with the
\* number of preparations.
C7_ReplotSameLegend ==
    (PreparedSubFigure /\ Returned) =>
        /\ backend.returned[1] = subfigures[backend.sub]._labels
        /\ backend.returned[2] = HandlesOf(subfigures[backend.sub]._elements, 1)

\* C8: save_figure(file_name) with no legend argument prepares the figure as
\* display() does: legend=False, no figure-level legend.
C8_SaveFigureDefaultsToNoLegend ==
    (backend.op = "save_figure" /\ backend.given = <<>>) =>
        /\ backend.legend = display_legend_default
        /\ backend.figure_legends = <<>>

\* C9: a SubFigure made with show_grid=True, or with show_grid "default" under
\* a style whose show_grid is true, has its grid drawn when it is prepared.
C9_ShowGridDrawsGrid ==
    ((PreparedFigure \/ PreparedSubFigure) /\ Returned) =>
        \A k \in 1..Len(backend.axes) :
            subfigures[backend.prepared[k]].show_grid = "True" => backend.axes[k].grid

\* C10: _prepare_SubFigure raises GraphingException exactly when the SubFigure
\* has no elements (the k-th preparation of a call is the one that raises
\* exactly when the k-th SubFigure is empty), and display / save_figure raises
\* GraphingException exactly when one of the SubFigures of the MultiFigure has
\* no elements.
C10_RaisesIffEmptySubFigure ==
    /\ (PreparedFigure \/ PreparedSubFigure) =>
           \A k \in 1..Len(backend.axes) :
               (k = Len(backend.axes) /\ backend.raised = "GraphingException")
                   <=> subfigures[backend.prepared[k]]._elements = <<>>
    /\ PreparedFigure =>
           (backend.raised = "GraphingException"
              <=> \E k \in 1..Len(multifigure._SubFigures) :
                      subfigures[multifigure._SubFigures[k]]._elements = <<>>)

\* display raises on the second SubFigure, which is empty, after the first
\* has been prepared
C10_Witness ==
    /\ PreparedFigure
    /\ backend.raised = "GraphingException"
    /\ Len(multifigure._SubFigures) = 2
    /\ Len(backend.axes) = 2
    /\ subfigures[multifigure._SubFigures[1]]._elements # <<>>
    /\ subfigures[multifigure._SubFigures[2]]._elements = <<>>

ReflectedCall ==
    backend.op \in {"__radd__", "__rsub__", "__rmul__", "__rtruediv__", "__rpow__"}

\* C11: `x ** obj` with a number x on the left, which calls
\* MathematicalObject.__rpow__ of the object, returns a value and does not
\* raise.
C11_ReflectedPowerReturns ==
    backend.op = "__rpow__" =>
        /\ backend.raised = "none"
        /\ backend.returned # <<>>

\* C12: for an object wrapping the number v and every non-zero number other,
\* other + obj is v + other, other * obj is v * other, other - obj is
\* (v - other) * (-1), which is the number other - v, and other / obj is
\* (v / other) ** (-1), which is the number other / v when v is not 0 and a
\* ZeroDivisionError when it is.
C12_ReflectedResults ==
    (ReflectedCall /\ backend.other[1] # 0) =>
        LET v     == backend.self
            other == backend.other
            got   == [raised |-> backend.raised, value |-> backend.returned]
        IN  /\ backend.op = "__radd__" =>
                /\ got = Wrapped_add(v, other)
                /\ got = Wrapped_add(other, v)
            /\ backend.op = "__rmul__" =>
                /\ got = Wrapped_mul(v, other)
                /\ got = Wrapped_mul(other, v)
            /\ backend.op = "__rsub__" =>
                /\ got = Wrapped_mul(Wrapped_sub(v, other).value, <<-1, 1>>)
                /\ got = Wrapped_sub(other, v)
            /\ backend.op = "__rtruediv__" =>
                /\ got.raised = Wrapped_truediv(other, v).raised
                /\ got.value = Wrapped_truediv(other, v).value
                /\ got.value = IF v[1] = 0 THEN <<>>
                               ELSE Wrapped_pow(Wrapped_truediv(v, other).value, -1).value

\* 2 - 1/2 and 3 / (-3/2): reflected results that differ from obj - other and
\* from obj / other
C12_Witness ==
    \/ /\ backend.op = "__rsub__"
       /\ backend.self = <<1, 2>>
       /\ backend.other = <<2, 1>>
       /\ backend.returned = <<3, 2>>
    \/ /\ backend.op = "__rtruediv__"
       /\ backend.self = <<-3, 2>>
       /\ backend.other = <<3, 1>>
       /\ backend.returned = <<-2, 1>>

HeatmapPlotted ==
    /\ backend.op = "_plot_element"
    /\ elements[backend.element].type = "Heatmap"

HeatmapBuilt == backend.op \in {"Heatmap", "Heatmap.from_function"}

\* C13: Heatmap._plot_element asks the figure for a colour bar exactly when
\* the Heatmap's show_color_bar is true, and a Heatmap built from an image
\* file has show_color_bar False after construction whatever value was
\* passed.
C13_ColorBarIffShown ==
    /\ HeatmapPlotted =>
           ((\E k \in 1..Len(backend.calls) : backend.calls[k].call = "colorbar")
               <=> elements[backend.element].show_color_bar = "True")
    /\ (HeatmapBuilt /\ backend.given.image \in ImageFiles) =>
           elements[1].show_color_bar = "False"
    /\ \A e \in 1..Len(elements) :
           (elements[e].type = "Heatmap"
              /\ \E file \in ImageFiles : elements[e].image = imread[file])
               => elements[e].show_color_bar = "False"

\* a Heatmap of an image file has been drawn, without a colour bar
C13_Witness ==
    /\ HeatmapPlotted
    /\ elements[backend.element].image = imread["image.png"]
    /\ Len(backend.calls) = 1

\* C14: a Heatmap built with x_axis_range (x0, x1) and y_axis_range (y0, y1)
\* is drawn with extent (x0, x1, y0, y1); a Heatmap built with either range
\* None is drawn without the extent argument.
C14_ExtentIffBothRanges ==
    /\ HeatmapBuilt =>
           /\ elements[1].x_axis_range = backend.given.x_axis_range
           /\ elements[1].y_axis_range = backend.given.y_axis_range
    /\ HeatmapPlotted =>
           LET self  == elements[backend.element]
               image == backend.calls[1]
           IN  /\ image.call = "imshow"
               /\ IF self.x_axis_range # NoRange /\ self.y_axis_range # NoRange
                  THEN /\ "extent" \in DOMAIN image
                       /\ image.extent = <<self.x_axis_range[1], self.x_axis_range[2],
                                           self.y_axis_range[1], self.y_axis_range[2]>>
                  ELSE "extent" \notin DOMAIN image

\* the Heatmap of test_init_and_plot has been drawn
C14_Witness ==
    /\ HeatmapPlotted
    /\ elements[backend.element].x_axis_range = <<0, 10>>
    /\ elements[backend.element].y_axis_range = <<0, 11>>
    /\ "extent" \in DOMAIN backend.calls[1]

\* C15: VectorField._plot_element passes arrow_length_multiplier to quiver as
\* scale, so the calls made for this VectorField differ from the calls made
\* for a VectorField that differs from it only in arrow_length_multiplier.
C15_ArrowLengthMultiplierForwarded ==
    (backend.op = "_plot_element" /\ elements[backend.element].type = "VectorField") =>
        LET self == elements[backend.element]
        IN  /\ "scale" \in DOMAIN backend.calls[1]
            /\ backend.calls[1].scale = self.arrow_length_multiplier
            /\ \A m \in ArrowLengthMultipliers \ {self.arrow_length_multiplier} :
                   VectorField_plot_element([self EXCEPT !.arrow_length_multiplier = m],
                                            backend.z_order) # backend.calls

\* the calls made on the object, the position of the first call that counts
\* (the last one made with reset=True, or the first call) and, of the calls
\* that count, those that give a value to key
CallLog == backend.log

RECURSIVE LastReset(_, _)
LastReset(log, k) ==
    IF k = 0 THEN 1 ELSE IF log[k].reset THEN k ELSE LastReset(log, k - 1)

Giving(key) ==
    {k \in LastReset(CallLog, Len(CallLog))..Len(CallLog) :
        key \in DOMAIN CallLog[k].rc_params_dict}

Latest(S) == CHOOSE k \in S : \A j \in S : j <= k

\* C16: after any sequence of set_rc_params calls on a SmartFigure or on a
\* SmartTwinAxis, _user_rc_dict has exactly the keys of the dicts passed
\* since and including the last call with reset=True (since construction if
\* there was none), each with the value of the latest of these calls that
\* has the key.
C16_UserRcDictIsMerge ==
    \A o \in 1..Len(smartfigures) :
        LET dict == smartfigures[o]._user_rc_dict
            keys == UNION {DOMAIN CallLog[k].rc_params_dict :
                             k \in LastReset(CallLog, Len(CallLog))..Len(CallLog)}
        IN  /\ DOMAIN dict = keys
            /\ \A key \in keys :
                   dict[key] = CallLog[Latest(Giving(key))].rc_params_dict[key]

\* the calls of the two tests, one after the other: a merge where the later
\* call wins, then a reset
C16_Witness ==
    /\ Len(CallLog) = 3
    /\ ~CallLog[1].reset /\ ~CallLog[2].reset /\ CallLog[3].reset
    /\ "axes_labelsize" \in DOMAIN CallLog[1].rc_params_dict
    /\ "axes_grid" \in DOMAIN CallLog[2].rc_params_dict
    /\ smartfigures[1]._user_rc_dict = [lines_linewidth |-> "3"]

\* the entries of the accepted calls from the k-th call on, in call order
RECURSIVE EntriesFrom(_, _)
EntriesFrom(log, k) ==
    IF k > Len(log) THEN <<>>
    ELSE (IF log[k].raised = "none" THEN Items(log[k].elements) ELSE <<>>)
            \o EntriesFrom(log, k + 1)

\* the last call with reset=True that was accepted or that emptied the lists
\* while it raised; the first call if there is none
RECURSIVE LastEmptying(_, _)
LastEmptying(log, k) ==
    IF k = 0 THEN 1
    ELSE IF log[k].reset /\ (log[k].raised = "none" \/ log[k].emptied) THEN k
    ELSE LastEmptying(log, k - 1)

LastCall == CallLog[Len(CallLog)]

IsTwinAxis(field) ==
    /\ Len(field) <= 1
    /\ field # <<>> =>
           /\ field[1] \in 1..Len(smartfigures)
           /\ smartfigures[field[1]].type = "SmartTwinAxis"

\* C18: each of _twin_x_axis and _twin_y_axis of a SmartFigure is None or one
\* SmartTwinAxis; create_twin_axis on a 1x1 figure that has no twin of that
\* axis makes a new SmartTwinAxis, stores it and returns it; create_twin_axis
\* for an axis that has a twin raises GraphingException and keeps the twin;
\* create_twin_axis, and the assignment of a SmartTwinAxis to twin_x_axis or
\* twin_y_axis, on a figure with more than one subplot raises
\* GraphingException, and such a figure has no twin axis.
C18_AtMostOneTwinPerAxis ==
    LET self == smartfigures[1]
    IN  /\ IsTwinAxis(self._twin_x_axis)
        /\ IsTwinAxis(self._twin_y_axis)
        /\ HasSubplots(self) => (self._twin_x_axis = <<>> /\ self._twin_y_axis = <<>>)
        /\ CallLog # <<>> =>
             LET field  == TwinField(LastCall.is_y)
                 before == LastCall.before
             IN  /\ (LastCall.op = "create_twin_axis" /\ ~HasSubplots(self)
                       /\ before[1][field] = <<>>) =>
                        /\ LastCall.raised = "none"
                        /\ LastCall.returned = <<Len(before) + 1>>
                        /\ self[field] = LastCall.returned
                        /\ Len(smartfigures) = Len(before) + 1
                        /\ smartfigures[Len(smartfigures)] = SmartTwinAxisInit(LastCall.given[1])
                 /\ (LastCall.op = "create_twin_axis" /\ before[1][field] # <<>>) =>
                        /\ LastCall.raised = "GraphingException"
                        /\ smartfigures = before
                 /\ (HasSubplots(self)
                       /\ (LastCall.op = "create_twin_axis" \/ LastCall.given # <<>>)) =>
                        /\ LastCall.raised = "GraphingException"
                        /\ smartfigures = before

\* create_twin_axis(is_y=True) twice on the 1x1 figure: the second call raises
C18_Witness ==
    /\ Len(CallLog) = 2
    /\ CallLog[1].op = "create_twin_axis" /\ CallLog[1].is_y
    /\ CallLog[1].raised = "none"
    /\ CallLog[2].op = "create_twin_axis" /\ CallLog[2].is_y
    /\ CallLog[2].raised = "GraphingException"
    /\ smartfigures[1]._twin_y_axis = CallLog[1].returned

\* the cells of an axis of length n that Python's indexing gives the part k
\* of a key: the cell i mod n for the integer i, and for a slice the cells
\* from its start to before its stop, a negative bound counted from the end
\* and every bound clipped to the axis
Clip(b, n) == IF b < 0 THEN 0 ELSE IF b > n THEN n ELSE b

PythonBound(bound, default, n) ==
    IF bound = <<>> THEN default
    ELSE Clip(IF bound[1] < 0 THEN bound[1] + n ELSE bound[1], n)

PythonCells(k, n) ==
    IF k.class = "int" THEN {k.i % n}
    ELSE {c \in 0..(n - 1) :
            PythonBound(k.start, 0, n) <= c /\ c < PythonBound(k.stop, n, n)}

OutOfRange(k, n) ==
    IF k.class = "int" THEN k.i < -n \/ k.i >= n
    ELSE \/ \E bound \in {k.start, k.stop} :
                bound # <<>> /\ (bound[1] < -n \/ bound[1] > n)
         \/ PythonCells(k, n) = {}

HasStep(k) == k.class = "slice" /\ k.step # <<>>

NormalizedTo(slice, k, n) ==
    /\ slice.class = "slice"
    /\ slice.step = <<>>
    /\ slice.start # <<>> /\ slice.stop # <<>>
    /\ 0 <= slice.start[1] /\ slice.start[1] < slice.stop[1] /\ slice.stop[1] <= n
    /\ {c \in 0..(n - 1) : slice.start[1] <= c /\ c < slice.stop[1]} = PythonCells(k, n)
    /\ k.class = "int" => slice = Slice(<<k.i % n>>, <<(k.i % n) + 1>>, <<>>)
    /\ (k.class = "slice" /\ k.start # <<>> /\ k.start[1] < 0) =>
           slice.start[1] = k.start[1] + n
    /\ (k.class = "slice" /\ k.stop # <<>> /\ k.stop[1] < 0) =>
           slice.stop[1] = k.stop[1] + n

\* a part of a key with nothing outside [-n, n], not an empty slice, no step
InsideClosedRange(k, n) ==
    IF k.class = "int" THEN -n <= k.i /\ k.i <= n
    ELSE /\ \A bound \in {k.start, k.stop} :
                bound # <<>> => (-n <= bound[1] /\ bound[1] <= n)
         /\ PythonCells(k, n) # {}
         /\ k.step = <<>>

\* C19 as stated: every key whose integers and slice bounds are in [-n, n],
\* whose slices are not empty and have no step, is mapped to two slices, the
\* integer i to slice(i mod n, i mod n + 1).
C19_ClosedRangeKeyNormalized ==
    backend.op = "_validate_and_normalize_key" =>
        LET self == smartfigures[backend.object]
            key  == backend.key
        IN  (InsideClosedRange(key[1], self.num_rows)
               /\ InsideClosedRange(key[2], self.num_cols)) =>
                /\ backend.raised = "none"
                /\ Len(backend.returned) = 2
                /\ NormalizedTo(backend.returned[1], key[1], self.num_rows)
                /\ NormalizedTo(backend.returned[2], key[2], self.num_cols)

\* C19: _validate_and_normalize_key returns, for a key without a step whose
\* integers are in [-n, n) and whose slices have their bounds in [-n, n] and
\* are not empty, two slices with non-negative bounds that denote the cells
\* of the key: slice(i mod n, i mod n + 1) for the integer i, and the slice
\* with n added to each negative bound for a slice.  It raises IndexError for
\* a key without a step of which an integer or a slice bound is out of range
\* or a slice is empty, ValueError for a key with a step and nothing out of
\* range, and one of the two for a key with both.
C19_KeyNormalized ==
    backend.op = "_validate_and_normalize_key" =>
        LET self  == smartfigures[backend.object]
            key   == backend.key
            range == OutOfRange(key[1], self.num_rows) \/ OutOfRange(key[2], self.num_cols)
            step  == HasStep(key[1]) \/ HasStep(key[2])
        IN  /\ (~range /\ ~step) =>
                  /\ backend.raised = "none"
                  /\ Len(backend.returned) = 2
                  /\ NormalizedTo(backend.returned[1], key[1], self.num_rows)
                  /\ NormalizedTo(backend.returned[2], key[2], self.num_cols)
            /\ (range /\ ~step) => backend.raised = "IndexError"
            /\ (step /\ ~range) => backend.raised = "ValueError"
            /\ (step /\ range) => backend.raised \in {"IndexError", "ValueError"}

\* the key (slice(-2, None), slice(-3, -1)) of the test, on the 2x3 figure
C19_Witness ==
    /\ backend.op = "_validate_and_normalize_key"
    /\ smartfigures[1].num_rows = 2 /\ smartfigures[1].num_cols = 3
    /\ backend.key[2] = Slice(<<-3>>, <<-1>>, <<>>)
    /\ backend.key[1] = Index(-1)
    /\ backend.returned = <<Slice(<<1>>, <<2>>, <<>>), Slice(<<0>>, <<2>>, <<>>)>>

\* C20: the legend that a SubFigure draws on its first preparation is given
\* as many handles as labels, and the i-th handle is the handle of the
\* element whose label is the i-th label.
C20_HandlesMatchLabels ==
    (PreparedSubFigure /\ Returned /\ backend.axes[1].legends # <<>>) =>
        LET legend == backend.axes[1].legends[1]
        IN  /\ Len(legend.handles) = Len(legend.labels)
            /\ \A i \in 1..Len(legend.handles) :
                   i <= Len(legend.labels)
                       => elements[legend.handles[i]].label = legend.labels[i]

\* C21: _prepare_SubFigure plots the k-th element of the SubFigure (counting
\* from 0 in the order of add_element) with z_order 2k, so the z_order of
\* successive elements is strictly increasing: no element is drawn at the
\* level of an earlier one.
C21_ZOrderIsTwiceTheRank ==
    (PreparedSubFigure /\ Returned) =>
        LET plotted == backend.axes[1].plotted
        IN  /\ Len(plotted) = Len(subfigures[backend.sub]._elements)
            /\ \A k \in 1..Len(plotted) :
                   /\ plotted[k].element = subfigures[backend.sub]._elements[k]
                   /\ plotted[k].z_order = 2 * (k - 1)
            /\ \A j, k \in 1..Len(plotted) :
                   j < k => plotted[j].z_order < plotted[k].z_order

\* C22: SubFigure._fill_in_missing_params and MultiFigure._fill_in_missing_params
\* resolve defaults alike: for every element and every style dictionary, the
\* state either of them leaves the element in is the state the other leaves
\* it in.
C22_SameResolutionInBothContainers ==
    /\ backend.op = "_fill_in_missing_params" =>
           elements[backend.element] =
               MultiFigure_fill_in_missing_params(
                   subfigures[backend.sub].default_params,
                   backend.before[backend.element])
    /\ backend.op = "MultiFigure._fill_in_missing_params" =>
           elements[backend.element] =
               SubFigure_fill_in_missing_params(
                   multifigure.default_params,
                   backend.before[backend.element])

\* the MultiFigure has resolved a curve whose errorbars_color was "default"
\* against a style whose entry for it is "same as scatter", and whose other
\* error-bar entries are "same as curve" and an ordinary value
C22_Witness ==
    /\ backend.op = "MultiFigure._fill_in_missing_params"
    /\ backend.before[backend.element].vars["errorbars_color"] = "default"
    /\ backend.before[backend.element].vars["cap_thickness"] = "default"
    /\ multifigure.default_params["Curve"]["errorbars_color"] = "same as scatter"
    /\ multifigure.default_params["Curve"]["errorbars_line_width"] = "same as curve"
    /\ elements[backend.element].vars["errorbars_color"] =
           multifigure.default_params["Curve"]["face_color"]
    /\ elements[backend.element] # backend.before[backend.element]

FilledByEither ==
    backend.op \in {"_fill_in_missing_params", "MultiFigure._fill_in_missing_params"}

\* the style dictionary the call read: self.default_params
DictionaryRead ==
    IF backend.op = "_fill_in_missing_params"
    THEN subfigures[backend.sub].default_params
    ELSE multifigure.default_params

\* the attribute of the curve that an error-bar attribute follows
CurveAttribute ==
    [errorbars_color |-> "color", errorbars_line_width |-> "line_width",
     cap_thickness |-> "line_width"]

\* C23: an error-bar attribute that held "default" and whose style entry is
\* "same as curve" holds, after _fill_in_missing_params of either container,
\* what the element's own colour (errorbars_color) or line width
\* (errorbars_line_width, cap_thickness) holds after the call, whether the
\* style or the user gave the element that colour or line width.
C23_ErrorBarsMatchTheCurve ==
    FilledByEither =>
        \A v \in ErrorBarVars :
            (/\ Before(v) = "default"
             /\ DictionaryRead[elements[backend.element].type][v] = "same as curve")
                => After(v) = After(CurveAttribute[v])

\* C24: after any sequence of add_SubFigure calls, every SubFigure that the
\* MultiFigure holds lies inside the grid: its row plus the rows it spans is
\* at most num_rows and its column plus the columns it spans is at most
\* num_cols.
C24_SubFiguresInsideGrid ==
    \A k \in 1..Len(multifigure._SubFigures) :
        LET placement == subfigures[multifigure._SubFigures[k]].placement
        IN  /\ placement[1] + placement[3] <= multifigure.num_rows
            /\ placement[2] + placement[4] <= multifigure.num_cols
====
